---- MODULE Spec2Model ----
(***************************************************************************)
(* Model of pyActigraphy/io/awd/awd.py: the RawAWD reader.                 *)
(*                                                                         *)
(* A text is a sequence of pieces (one-character strings, or a whole date  *)
(* or time-of-day word); whitespace characters and line terminators are    *)
(* always pieces of their own.  A file is a sequence of lines, each line a *)
(* text.  Timestamps are seconds since 2021-01-01T00:00:00, durations are  *)
(* seconds.  An absent value (Python's None) of a string is "None", of a   *)
(* number or a text it is wrapped: <<>> is None and <<x>> is x.            *)
(***************************************************************************)
EXTENDS Integers, Sequences, FiniteSets, TLC

VARIABLES
    file,          \* the lines of the input file
    opt,           \* the caller's options: header_size, frequency, start_time, period
    pc,            \* position of the constructor
    handle,        \* the file handle f: "unopened", "open" or "closed"
    header,        \* list of header lines
    data,          \* list of integer samples
    name,          \* header name
    freq,          \* sampling period string, "None" if unresolved
    uuid,          \* header identifier
    start,         \* header start timestamp, wrapped
    device_type,   \* self.__device_type, <<>> while the attribute is not set
    index_data,    \* the series: a sequence of <<timestamp, sample>>
    start_time,    \* local start_time after lines 119-122, wrapped
    period,        \* local period after lines 124-129, wrapped
    stop_time,     \* local stop_time, wrapped
    raw,           \* what super().__init__ received, <<>> until then
    error,         \* the exception that ended the constructor, "None" if none
    model,         \* result of the model accessor, "None" before it is read
    done           \* the steps completed so far, in order

vars == <<file, opt, pc, handle, header, data, name, freq, uuid, start,
          device_type, index_data, start_time, period, stop_time, raw,
          error, model, done>>

-----------------------------------------------------------------------------
(* Bounds of the model. *)

MaxTokenLen == 3
MaxSamples == 3

-----------------------------------------------------------------------------
(* Text helpers: the str methods the reader uses. *)

Whitespace == {" ", "\t", "\n", "\r"}

Digits == <<"0", "1", "2", "3", "4", "5", "6", "7", "8", "9">>

Lower == <<"a", "b", "c", "d", "e", "f", "g", "h", "i", "j", "k", "l", "m",
           "n", "o", "p", "q", "r", "s", "t", "u", "v", "w", "x", "y", "z">>

Upper == <<"A", "B", "C", "D", "E", "F", "G", "H", "I", "J", "K", "L", "M",
           "N", "O", "P", "Q", "R", "S", "T", "U", "V", "W", "X", "Y", "Z">>

Range(s) == {s[i] : i \in DOMAIN s}

IndexOf(s, c) == CHOOSE i \in DOMAIN s : s[i] = c

\* str.replace('\n', '')
RemoveNewline(s) == SelectSeq(s, LAMBDA c : c # "\n")

RECURSIVE LStrip(_)
LStrip(s) == IF s # <<>> /\ Head(s) \in Whitespace THEN LStrip(Tail(s)) ELSE s

RECURSIVE RStrip(_)
RStrip(s) ==
    IF s # <<>> /\ s[Len(s)] \in Whitespace
    THEN RStrip(SubSeq(s, 1, Len(s) - 1))
    ELSE s

\* str.strip()
Strip(s) == RStrip(LStrip(s))

\* str.isalpha() of one character
IsAlpha(c) == c \in Range(Lower) \cup Range(Upper)

\* str.capitalize() of one character
Capitalize(c) == IF c \in Range(Lower) THEN Upper[IndexOf(Lower, c)] ELSE c

\* line.split(sep)[0]: the text before the first occurrence of sep
RECURSIVE SplitFirst(_, _)
SplitFirst(line, sep) ==
    IF line = <<>> \/ Head(line) = sep
    THEN <<>>
    ELSE <<Head(line)>> \o SplitFirst(Tail(line), sep)

\* int(text): surrounding whitespace is ignored, then an optional sign and
\* decimal digits, with single underscores allowed between digits
IntBody(text) ==
    LET t == Strip(text)
    IN  IF t # <<>> /\ Head(t) \in {"+", "-"} THEN Tail(t) ELSE t

IntValid(text) ==
    LET b == IntBody(text)
    IN  /\ b # <<>>
        /\ \A i \in DOMAIN b : b[i] \in Range(Digits) \cup {"_"}
        /\ b[1] # "_"
        /\ b[Len(b)] # "_"
        /\ \A i \in 1..(Len(b) - 1) : ~(b[i] = "_" /\ b[i + 1] = "_")

RECURSIVE DigitsValue(_)
DigitsValue(ds) ==
    IF ds = <<>>
    THEN 0
    ELSE 10 * DigitsValue(SubSeq(ds, 1, Len(ds) - 1))
         + (IndexOf(Digits, ds[Len(ds)]) - 1)

IntValue(text) ==
    LET t == Strip(text)
        ds == SelectSeq(IntBody(text), LAMBDA c : c # "_")
    IN  IF Head(t) = "-" THEN 0 - DigitsValue(ds) ELSE DigitsValue(ds)

-----------------------------------------------------------------------------
(* pandas: to_datetime, Timedelta, date_range, Series.loc on the texts the  *)
(* model draws its inputs from.                                            *)

DateSeconds == [d \in {"2021-01-01"} |-> 0]

TimeSeconds ==
    [t \in {"07:59:45", "08:00:00", "08:00:15", "08:00:20", "08:00:30",
            "08:01:00"} |->
        CASE t = "07:59:45" -> 28785
          [] t = "08:00:00" -> 28800
          [] t = "08:00:15" -> 28815
          [] t = "08:00:20" -> 28820
          [] t = "08:00:30" -> 28830
          [] t = "08:01:00" -> 28860]

Words(text) == SelectSeq(text, LAMBDA c : c \notin Whitespace)

\* pd.to_datetime(text) parses a date and a time of day separated by
\* whitespace; anything else raises
DatetimeValid(text) ==
    /\ Len(Words(text)) = 2
    /\ Words(text)[1] \in DOMAIN DateSeconds
    /\ Words(text)[2] \in DOMAIN TimeSeconds

DatetimeValue(text) == DateSeconds[Words(text)[1]] + TimeSeconds[Words(text)[2]]

\* pd.Timedelta(string), and the same strings as date_range's freq
TimedeltaSeconds ==
    [s \in {"2s", "5s", "10s", "15s", "30s", "60s", "2min", "5min", "-15s"} |->
        CASE s = "2s" -> 2
          [] s = "5s" -> 5
          [] s = "10s" -> 10
          [] s = "15s" -> 15
          [] s = "30s" -> 30
          [] s = "60s" -> 60
          [] s = "2min" -> 120
          [] s = "5min" -> 300
          [] s = "-15s" -> 0 - 15]

TimedeltaValid(s) == s \in DOMAIN TimedeltaSeconds

\* date_range accepts as freq the strings Timedelta accepts
FreqValid(s) == TimedeltaValid(s)

\* pd.date_range(start=start, periods=n, freq=f)
DateRange(st, n, f) == [i \in 1..n |-> st + (i - 1) * TimedeltaSeconds[f]]

\* pd.Series(data=values, index=index)
Series(values, index) == [i \in 1..Len(values) |-> <<index[i], values[i]>>]

\* series.loc[a:b] on a sorted index: positions from searchsorted(a, 'left')
\* to searchsorted(b, 'right')
Loc(series, a, b) ==
    LET lo == Cardinality({i \in DOMAIN series : series[i][1] < a})
        hi == Cardinality({i \in DOMAIN series : series[i][1] <= b})
    IN  SubSeq(series, lo + 1, hi)

-----------------------------------------------------------------------------
(* Class attributes of RawAWD. *)

frequency_code ==
    [c \in {<<"1">>, <<"2">>, <<"4">>, <<"8">>, <<"2", "0">>, <<"8", "1">>,
            <<"C", "1">>, <<"C", "2">>} |->
        CASE c = <<"1">> -> "15s"
          [] c = <<"2">> -> "30s"
          [] c = <<"4">> -> "60s"
          [] c = <<"8">> -> "2min"
          [] c = <<"2", "0">> -> "5min"
          [] c = <<"8", "1">> -> "2s"
          [] c = <<"C", "1">> -> "5s"
          [] c = <<"C", "2">> -> "10s"]

device_code ==
    [c \in {"D", "I", "L", "M", "P", "S", "T", "V"} |->
        CASE c = "D" -> "Actiwatch-7"
          [] c = "I" -> "Actiwatch-Insomnia (pressure sens.)"
          [] c = "L" -> "Actiwatch-L (amb. light)"
          [] c = "M" -> "Actiwatch-Mini"
          [] c = "P" -> "Actiwatch-L-Plus (amb. light)"
          [] c = "S" -> "Actiwatch-S (env. sound)"
          [] c = "T" -> "Actiwatch-T (temp.)"
          [] c = "V" -> "Actiwatch-4"]

-----------------------------------------------------------------------------
(* The static extractors.  header[k] of the source is header[k + 1] here.  *)

extract_awd_name(h) == RemoveNewline(h[1])

extract_awd_frequency(h) ==
    LET code == Strip(RemoveNewline(h[4]))
    IN  IF code \notin DOMAIN frequency_code THEN "None" ELSE frequency_code[code]

extract_awd_uuid(h) == RemoveNewline(h[6])

StartText(h) == h[2] \o <<" ">> \o h[3]

extract_awd_model(u) ==
    IF IsAlpha(u[1])
    THEN IF Capitalize(u[1]) \in DOMAIN device_code THEN Capitalize(u[1]) ELSE "U"
    ELSE "X"

\* the token cut at any whitespace, as line.split()[0] would
SampleTokenAnyWhitespace(line) ==
    SplitFirst(SplitFirst(SplitFirst(SplitFirst(LStrip(line), " "), "\t"),
                          "\n"), "\r")

\* the token of a data line
SampleToken(line) == SplitFirst(line, " ")

-----------------------------------------------------------------------------
(* The constructor RawAWD.__init__, one action per step.                   *)

\* the handle closed only when the block ends normally
WithExitOnSuccess(h, raised) == IF raised THEN h ELSE "closed"

\* leaving the with block, normally or by an exception, closes the handle
WithExit(h, raised) == "closed"

Raise(e) ==
    /\ pc' = "raised"
    /\ error' = e

\* line 86: open(input_fname)
OpenFile ==
    /\ pc = "init"
    /\ handle' = "open"
    /\ pc' = "header"
    /\ done' = Append(done, "open")
    /\ UNCHANGED <<file, opt, header, data, name, freq, uuid, start,
                   device_type, index_data, start_time, period, stop_time,
                   raw, error, model>>

\* line 87: header = [next(f) for x in range(header_size)]
ReadHeader ==
    /\ pc = "header"
    /\ IF Len(file) < opt.header_size
       THEN /\ Raise("StopIteration")
            /\ handle' = WithExit(handle, TRUE)
            /\ UNCHANGED <<header, done>>
       ELSE /\ header' = SubSeq(file, 1, opt.header_size)
            /\ pc' = "data"
            /\ done' = Append(done, "header")
            /\ UNCHANGED <<handle, error>>
    /\ UNCHANGED <<file, opt, data, name, freq, uuid, start, device_type,
                   index_data, start_time, period, stop_time, raw, model>>

\* the lines the iterator f still holds after the header
DataLines(f, hs) == SubSeq(f, hs + 1, Len(f))

\* lines that do not parse left out instead of raising
ReadDataSkipping ==
    /\ pc = "data"
    /\ LET lines == SelectSeq(DataLines(file, opt.header_size),
                              LAMBDA l : IntValid(SampleToken(l)))
       IN  data' = [i \in DOMAIN lines |-> IntValue(SampleToken(lines[i]))]
    /\ handle' = WithExit(handle, FALSE)
    /\ pc' = "fields"
    /\ done' = Append(done, "data")
    /\ UNCHANGED <<file, opt, header, name, freq, uuid, start, device_type,
                   index_data, start_time, period, stop_time, raw, error,
                   model>>

\* line 88: data = [int(line.split(' ')[0]) for line in f], then the with
\* block ends
ReadData ==
    /\ pc = "data"
    /\ LET lines == DataLines(file, opt.header_size)
       IN  IF \E i \in DOMAIN lines : ~IntValid(SampleToken(lines[i]))
           THEN /\ Raise("ValueError: invalid literal for int()")
                /\ handle' = WithExit(handle, TRUE)
                /\ UNCHANGED <<data, done>>
           ELSE /\ data' = [i \in DOMAIN lines |-> IntValue(SampleToken(lines[i]))]
                /\ handle' = WithExit(handle, FALSE)
                /\ pc' = "fields"
                /\ done' = Append(done, "data")
                /\ UNCHANGED error
    /\ UNCHANGED <<file, opt, header, name, freq, uuid, start, device_type,
                   index_data, start_time, period, stop_time, raw, model>>

\* lines 91-93: name, freq and uuid from the header
ExtractFields ==
    /\ pc = "fields"
    /\ IF Len(header) < 6
       THEN /\ Raise("IndexError: list index out of range")
            /\ UNCHANGED <<name, freq, uuid, done>>
       ELSE /\ name' = extract_awd_name(header)
            /\ freq' = extract_awd_frequency(header)
            /\ uuid' = extract_awd_uuid(header)
            /\ pc' = "start"
            /\ done' = Append(done, "fields")
            /\ UNCHANGED error
    /\ UNCHANGED <<file, opt, handle, header, data, start, device_type,
                   index_data, start_time, period, stop_time, raw, model>>

\* line 94: start = RawAWD.__extract_awd_start_time(header)
ParseStart ==
    /\ pc = "start"
    /\ IF ~DatetimeValid(StartText(header))
       THEN /\ Raise("ParserError: unknown datetime string")
            /\ UNCHANGED <<start, done>>
       ELSE /\ start' = <<DatetimeValue(StartText(header))>>
            /\ pc' = "model"
            /\ done' = Append(done, "start")
            /\ UNCHANGED error
    /\ UNCHANGED <<file, opt, handle, header, data, name, freq, uuid,
                   device_type, index_data, start_time, period, stop_time,
                   raw, model>>

\* lines 95-97: the device type, when the identifier is not empty
ExtractModel ==
    /\ pc = "model"
    /\ device_type' =
           IF uuid # <<>> THEN <<extract_awd_model(uuid)>> ELSE device_type
    /\ pc' = "frequency"
    /\ done' = Append(done, "model")
    /\ UNCHANGED <<file, opt, handle, header, data, name, freq, uuid, start,
                   index_data, start_time, period, stop_time, raw, error,
                   model>>

\* the caller's frequency taken first
ResolvedFreqOverride(hfreq, frequency) ==
    IF frequency # "None" THEN frequency ELSE hfreq

\* lines 99-101: the period the header gave, else the caller's frequency
ResolvedFreq(hfreq, frequency) == IF hfreq = "None" THEN frequency ELSE hfreq

\* a default period instead of the error
ResolveFrequencyDefault ==
    /\ pc = "frequency"
    /\ freq' = IF ResolvedFreq(freq, opt.frequency) = "None"
               THEN "60s"
               ELSE ResolvedFreq(freq, opt.frequency)
    /\ pc' = "series"
    /\ done' = Append(done, "frequency")
    /\ UNCHANGED <<file, opt, handle, header, data, name, uuid, start,
                   device_type, index_data, start_time, period, stop_time,
                   raw, error, model>>

\* lines 99-108
ResolveFrequency ==
    /\ pc = "frequency"
    /\ IF ResolvedFreq(freq, opt.frequency) = "None"
       THEN /\ Raise("ValueError: frequency not in header and not provided")
            /\ UNCHANGED <<freq, done>>
       ELSE /\ freq' = ResolvedFreq(freq, opt.frequency)
            /\ pc' = "series"
            /\ done' = Append(done, "frequency")
            /\ UNCHANGED error
    /\ UNCHANGED <<file, opt, handle, header, data, name, uuid, start,
                   device_type, index_data, start_time, period, stop_time,
                   raw, model>>

\* lines 110-117: the series over date_range(start, len(data), freq)
FullSeries(values, st, f) == Series(values, DateRange(st, Len(values), f))

BuildSeries ==
    /\ pc = "series"
    /\ IF ~FreqValid(freq)
       THEN /\ Raise("ValueError: invalid frequency")
            /\ UNCHANGED <<index_data, done>>
       ELSE /\ index_data' = FullSeries(data, start[1], freq)
            /\ pc' = "window"
            /\ done' = Append(done, "series")
            /\ UNCHANGED error
    /\ UNCHANGED <<file, opt, handle, header, data, name, freq, uuid, start,
                   device_type, start_time, period, stop_time, raw, model>>

\* the caller's start_time ignored
WindowStartHeader(o, hstart) == hstart

\* lines 119-122: the caller's start_time, else the header's
WindowStart(o, hstart) ==
    IF o.start_time # <<>> THEN DatetimeValue(o.start_time) ELSE hstart

\* the window end counted from the first timestamp of the series
WindowStopFromFirst(o, st, series) ==
    IF o.period # "None"
    THEN (IF series = <<>> THEN st ELSE series[1][1]) + TimedeltaSeconds[o.period]
    ELSE series[Len(series)][1]

\* lines 124-129: stop_time
WindowStop(o, st, series) ==
    IF o.period # "None"
    THEN st + TimedeltaSeconds[o.period]
    ELSE series[Len(series)][1]

\* lines 124-129: period
WindowPeriod(o, st, series) ==
    IF o.period # "None"
    THEN TimedeltaSeconds[o.period]
    ELSE WindowStop(o, st, series) - st

\* what lines 119-129 raise, "None" if nothing
WindowError(o, series) ==
    IF o.start_time # <<>> /\ ~DatetimeValid(o.start_time)
    THEN "ParserError: unknown datetime string"
    ELSE IF o.period # "None" /\ ~TimedeltaValid(o.period)
    THEN "ValueError: invalid Timedelta"
    ELSE IF o.period = "None" /\ series = <<>>
    THEN "IndexError: index -1 is out of bounds"
    ELSE "None"

\* lines 119-131
Window ==
    /\ pc = "window"
    /\ IF WindowError(opt, index_data) # "None"
       THEN /\ Raise(WindowError(opt, index_data))
            /\ UNCHANGED <<start_time, period, stop_time, index_data, done>>
       ELSE LET st == WindowStart(opt, start[1])
            IN  /\ start_time' = <<st>>
                /\ period' = <<WindowPeriod(opt, st, index_data)>>
                /\ stop_time' = <<WindowStop(opt, st, index_data)>>
                /\ index_data' =
                       Loc(index_data, st, WindowStop(opt, st, index_data))
                /\ pc' = "populate"
                /\ done' = Append(done, "window")
                /\ UNCHANGED error
    /\ UNCHANGED <<file, opt, handle, header, data, name, freq, uuid, start,
                   device_type, raw, model>>

\* lines 134-144: what the base class receives
BaseRaw(n, u, st, p, f, series) ==
    [name |-> n, uuid |-> u, format |-> "AWD", axial_mode |-> "mono-axial",
     start_time |-> st, period |-> p, frequency |-> TimedeltaSeconds[f],
     data |-> series, light |-> "None"]

Populate ==
    /\ pc = "populate"
    /\ raw' = <<BaseRaw(name, uuid, start_time[1], period[1], freq, index_data)>>
    /\ pc' = "constructed"
    /\ done' = Append(done, "populate")
    /\ UNCHANGED <<file, opt, handle, header, data, name, freq, uuid, start,
                   device_type, index_data, start_time, period, stop_time,
                   error, model>>

\* lines 146-149: the model property
ModelOf(dt) ==
    IF dt = <<>>
    THEN "AttributeError: no attribute __device_type"
    ELSE IF dt[1] \notin DOMAIN device_code
    THEN "KeyError"
    ELSE device_code[dt[1]]

ModelAccessor ==
    /\ pc = "constructed"
    /\ model' = ModelOf(device_type)
    /\ pc' = "read"
    /\ UNCHANGED <<file, opt, handle, header, data, name, freq, uuid, start,
                   device_type, index_data, start_time, period, stop_time,
                   raw, error, done>>

Next ==
    \/ OpenFile
    \/ ReadHeader
    \/ ReadData
    \/ ExtractFields
    \/ ParseStart
    \/ ExtractModel
    \/ ResolveFrequency
    \/ BuildSeries
    \/ Window
    \/ Populate
    \/ ModelAccessor

-----------------------------------------------------------------------------
(* The constructor as a function of the file and the options: the error it *)
(* raises ("None" if it returns) and the series it hands to the base class.*)

Outcome(e, series) == [error |-> e, data |-> series]

RawAWD(f, o) ==
    IF Len(f) < o.header_size
    THEN Outcome("StopIteration", <<>>)
    ELSE
    LET h == SubSeq(f, 1, o.header_size)
        lines == DataLines(f, o.header_size)
    IN
    IF \E i \in DOMAIN lines : ~IntValid(SampleToken(lines[i]))
    THEN Outcome("ValueError: invalid literal for int()", <<>>)
    ELSE IF Len(h) < 6
    THEN Outcome("IndexError: list index out of range", <<>>)
    ELSE IF ~DatetimeValid(StartText(h))
    THEN Outcome("ParserError: unknown datetime string", <<>>)
    ELSE
    LET fq == ResolvedFreq(extract_awd_frequency(h), o.frequency)
        values == [i \in DOMAIN lines |-> IntValue(SampleToken(lines[i]))]
        hstart == DatetimeValue(StartText(h))
    IN
    IF fq = "None"
    THEN Outcome("ValueError: frequency not in header and not provided", <<>>)
    ELSE IF ~FreqValid(fq)
    THEN Outcome("ValueError: invalid frequency", <<>>)
    ELSE
    LET full == FullSeries(values, hstart, fq)
    IN
    IF WindowError(o, full) # "None"
    THEN Outcome(WindowError(o, full), <<>>)
    ELSE Outcome("None",
                 Loc(full, WindowStart(o, hstart),
                     WindowStop(o, WindowStart(o, hstart), full)))

-----------------------------------------------------------------------------
(* Inputs. *)

Options(hs, fr, st, pe) ==
    [header_size |-> hs, frequency |-> fr, start_time |-> st, period |-> pe]

InitOf(files, options) ==
    /\ file \in files
    /\ opt \in options
    /\ pc = "init"
    /\ handle = "unopened"
    /\ header = <<>>
    /\ data = <<>>
    /\ name = <<>>
    /\ freq = "None"
    /\ uuid = <<>>
    /\ start = <<>>
    /\ device_type = <<>>
    /\ index_data = <<>>
    /\ start_time = <<>>
    /\ period = <<>>
    /\ stop_time = <<>>
    /\ raw = <<>>
    /\ error = "None"
    /\ model = "None"
    /\ done = <<>>

\* all texts of 0 to n pieces drawn from chars
RECURSIVE TextsUpTo(_, _)
TextsUpTo(chars, n) ==
    IF n = 0
    THEN {<<>>}
    ELSE LET shorter == TextsUpTo(chars, n - 1)
         IN  shorter \cup {Append(t, c) : t \in shorter, c \in chars}

\* all sequences of 0 to n elements of set
RECURSIVE SeqsUpTo(_, _)
SeqsUpTo(set, n) ==
    IF n = 0
    THEN {<<>>}
    ELSE LET shorter == SeqsUpTo(set, n - 1)
         IN  shorter \cup {Append(q, x) : q \in shorter, x \in set}

Line(text) == text \o <<"\n">>

NameLine == Line(<<"S", "1">>)
DateLine == Line(<<"2021-01-01">>)
TimeLine == Line(<<"08:00:00">>)
BadTimeLine == Line(<<"8", "h">>)
Filler == Line(<<".">>)

\* a seven-line header followed by the data lines
AWDFile(timeLine, freqLine, uuidLine, lines) ==
    <<NameLine, DateLine, timeLine, freqLine, Filler, uuidLine, Filler>> \o lines

\* data lines of the documented shape: a count, a space, a marker column
GoodLines == {Line(<<"1", "0", " ", "x">>), Line(<<"5">>)}
BadLine == Line(<<"x", " ", "1">>)

Timestamp(t) == <<"2021-01-01", " ", t>>

\* Spec: every step and every way the constructor can end
Files ==
    {AWDFile(t, Line(f), Line(u), d) :
        t \in {TimeLine, BadTimeLine},
        f \in {<<"1">>, <<"9">>},
        u \in {<<"D", "1">>, <<"z", "9">>, <<>>},
        d \in SeqsUpTo(GoodLines \cup {BadLine}, MaxSamples)}
    \cup {SubSeq(AWDFile(TimeLine, Line(<<"1">>), Line(<<"D", "1">>), <<>>), 1, k) :
            k \in 0..6}

Opts ==
    {Options(hs, fr, st, pe) :
        hs \in {5, 7, 8},
        fr \in {"None", "10s", "fast"},
        st \in {<<>>, Timestamp("08:00:15")},
        pe \in {"None", "30s"}}

Init == InitOf(Files, Opts)

Spec == Init /\ [][Next]_vars

\* SpecModel: the identifiers of up to MaxTokenLen characters
UuidChars == {"d", "D", "z", "v", "9", " "}

ModelFiles ==
    {AWDFile(TimeLine, Line(<<"1">>), Line(u), <<Line(<<"5">>)>>) :
        u \in TextsUpTo(UuidChars, MaxTokenLen)}

ModelOpts == {Options(7, "None", <<>>, "None")}

InitModel == InitOf(ModelFiles, ModelOpts)

SpecModel == InitModel /\ [][Next]_vars

\* SpecFrequency: header line 3 holding each code of the table and some
\* that are not in it, bare or padded, against each frequency option
FrequencyCodes ==
    DOMAIN frequency_code \cup {<<>>, <<"9">>, <<"c", "1">>, <<"1", "5", "s">>}

FrequencyLines ==
    UNION {{Line(c), <<" ">> \o c \o <<" ", "\n">>, c \o <<"\r", "\n">>,
            Line(<<"\t">> \o c)} : c \in FrequencyCodes}

FrequencyFiles ==
    {AWDFile(t, f, Line(<<"D", "1">>), d) :
        t \in {TimeLine, BadTimeLine},
        f \in FrequencyLines,
        d \in {<<>>, <<Line(<<"5">>), Line(<<"1", "0", " ", "x">>)>>, <<BadLine>>}}

FrequencyOpts ==
    {Options(7, fr, <<>>, "None") : fr \in {"None", "10s", "60s", "fast"}}

InitFrequency == InitOf(FrequencyFiles, FrequencyOpts)

SpecFrequency == InitFrequency /\ [][Next]_vars

\* SpecData: data lines of up to MaxTokenLen characters and a terminator,
\* alone, before or after a line of the documented shape
LineChars == {"1", "2", "-", "+", "_", " ", "\t", "x"}

DataFiles ==
    {AWDFile(TimeLine, Line(<<"1">>), Line(<<"D", "1">>), d) :
        d \in UNION {{<<Line(t)>>, <<Line(t), Line(<<"5", " ", "x">>)>>,
                      <<Line(<<"5", " ", "x">>), Line(t)>>} :
                     t \in TextsUpTo(LineChars, MaxTokenLen)}}

DataOpts == {Options(7, "None", <<>>, "None")}

InitData == InitOf(DataFiles, DataOpts)

SpecData == InitData /\ [][Next]_vars

\* SpecWindow: 0 to MaxSamples data lines of the documented shape, against
\* each window start and period
WindowFiles ==
    {AWDFile(TimeLine, Line(f), Line(<<"D", "1">>), d) :
        f \in {<<"1">>, <<"9">>},
        d \in SeqsUpTo(GoodLines, MaxSamples)}

WindowOpts ==
    {Options(7, fr, st, pe) :
        fr \in {"None", "10s"},
        st \in {<<>>} \cup {Timestamp(t) : t \in DOMAIN TimeSeconds},
        pe \in {"None", "15s", "30s", "-15s"}}

InitWindow == InitOf(WindowFiles, WindowOpts)

SpecWindow == InitWindow /\ [][Next]_vars

\* the stepwise constructor and RawAWD agree on every input
StepsAgreeWithRawAWD ==
    /\ pc = "raised" => RawAWD(file, opt) = Outcome(error, <<>>)
    /\ pc \in {"constructed", "read"} =>
           RawAWD(file, opt) = Outcome("None", raw[1].data)

-----------------------------------------------------------------------------
(* Properties. *)

Finished == pc \in {"raised", "constructed", "read"}

Populated == raw # <<>>

IsException(m) ==
    m \in {"KeyError", "AttributeError: no attribute __device_type"}

\* C1: once a record is decoded, reading model returns a string and never
\* raises: the mapped model name when the identifier starts with a letter
\* whose uppercase form is a key of device_code, a sentinel string otherwise.
C1_ModelNeverRaises ==
    pc = "read" =>
        /\ ~IsException(model)
        /\ (uuid # <<>> /\ IsAlpha(uuid[1])
            /\ Capitalize(uuid[1]) \in DOMAIN device_code) =>
               model = device_code[Capitalize(uuid[1])]

\* the trimmed frequency code of header line 3
HeaderCode == Strip(RemoveNewline(file[4]))

ConfigurationError == "ValueError: frequency not in header and not provided"

C3_Period ==
    IF HeaderCode \in DOMAIN frequency_code
    THEN TimedeltaSeconds[frequency_code[HeaderCode]]
    ELSE TimedeltaSeconds[opt.frequency]

\* C3: the sampling period of the time index and of the record depends only
\* on line 3 and the frequency option: it is the table's value for the
\* trimmed code of line 3 whenever that is a key ("1": 15 s, "81": 2 s,
\* "C2": 10 s), whatever the option, and the option's value only otherwise.
C3_PeriodFromHeaderFirst ==
    /\ pc = "window" =>
           \A i \in 1..(Len(index_data) - 1) :
               index_data[i + 1][1] - index_data[i][1] = C3_Period
    /\ Populated =>
           /\ raw[1].frequency = C3_Period
           /\ HeaderCode = <<"1">> => raw[1].frequency = 15
           /\ HeaderCode = <<"8", "1">> => raw[1].frequency = 2
           /\ HeaderCode = <<"C", "2">> => raw[1].frequency = 10

C3_Witness ==
    /\ Populated
    /\ file[4] = <<" ", "8", "1", " ", "\n">>
    /\ opt.frequency = "10s"
    /\ raw[1].frequency = 2
    /\ Len(raw[1].data) = 2

\* the data lines of the input and the header's start time
InputLines == SubSeq(file, opt.header_size + 1, Len(file))

HeaderStart == DateSeconds[file[2][1]] + TimeSeconds[file[3][1]]

\* the text before the first space of a line, and before its first
\* whitespace character
BeforeFirst(line, seps) ==
    LET hits == {i \in DOMAIN line : line[i] \in seps}
    IN  IF hits = {}
        THEN line
        ELSE SubSeq(line, 1, (CHOOSE i \in hits : \A j \in hits : i <= j) - 1)

\* an integer literal: an optional sign followed by one or more digits,
\* where an underscore may stand between two digits
IsSignedDigits(text) ==
    \E k \in 0..1 :
        /\ Len(text) > k
        /\ k = 1 => text[1] \in {"+", "-"}
        /\ \A i \in (k + 1)..Len(text) :
               \/ text[i] \in Range(Digits)
               \/ /\ text[i] = "_"
                  /\ k + 1 < i
                  /\ i < Len(text)
                  /\ text[i - 1] \in Range(Digits)
                  /\ text[i + 1] \in Range(Digits)

\* text with the whitespace pieces at both ends left out
Trimmed(text) ==
    LET inner == {i \in DOMAIN text : text[i] \notin Whitespace}
    IN  IF inner = {}
        THEN <<>>
        ELSE SubSeq(text,
                    CHOOSE i \in inner : \A j \in inner : i <= j,
                    CHOOSE i \in inner : \A j \in inner : i >= j)

SignedValue(text) ==
    LET ds == SelectSeq(text, LAMBDA c : c \in Range(Digits))
    IN  IF text[1] = "-" THEN 0 - DigitsValue(ds) ELSE DigitsValue(ds)

\* the input is well formed: a full header with a parsable start and a
\* resolvable period, and data lines made of a count, then nothing or a
\* space and a marker
WellFormedLine(line) ==
    /\ IsSignedDigits(BeforeFirst(line, Whitespace))
    /\ line[Len(BeforeFirst(line, Whitespace)) + 1] \in {" ", "\n"}

WellFormed ==
    /\ Len(file) >= opt.header_size
    /\ opt.header_size = 7
    /\ DatetimeValid(file[2] \o <<" ">> \o file[3])
    /\ \/ HeaderCode \in DOMAIN frequency_code
       \/ TimedeltaValid(opt.frequency)
    /\ \A i \in DOMAIN InputLines : WellFormedLine(InputLines[i])

\* the regular series the claims describe: sample i of the file at
\* header start + i * period
ExpectedSeries ==
    [i \in 1..Len(InputLines) |->
        <<HeaderStart + (i - 1) * C3_Period,
          SignedValue(BeforeFirst(InputLines[i], Whitespace))>>]

\* the entries of a series with a <= timestamp <= b
InclusiveSlice(series, a, b) ==
    SelectSeq(series, LAMBDA e : a <= e[1] /\ e[1] <= b)

\* C4 as stated: a well-formed input with any number n >= 0 of data lines,
\* decoded without start_time and period, succeeds and gives exactly the n
\* pairs (header start + i * period, integer of line i) in file order.
C4_FullSeries ==
    (Finished /\ WellFormed /\ opt.start_time = <<>> /\ opt.period = "None") =>
        /\ pc # "raised"
        /\ raw[1].data = ExpectedSeries

\* the options without a window
NoWindow(o) == Options(o.header_size, o.frequency, <<>>, "None")

\* C5 as stated: for a well-formed input, decoding with start_time S and
\* period P gives the series that decoding without a window and slicing
\* [S, S + P] gives.
C5_WindowIsSlice ==
    (Finished /\ WellFormed /\ opt.start_time # <<>> /\ opt.period # "None") =>
        /\ pc # "raised"
        /\ RawAWD(file, NoWindow(opt)).error = "None"
        /\ raw[1].data =
               InclusiveSlice(RawAWD(file, NoWindow(opt)).data,
                              DatetimeValue(opt.start_time),
                              DatetimeValue(opt.start_time)
                                  + TimedeltaSeconds[opt.period])

\* the caller's window start lies outside the full series
StartBefore ==
    /\ opt.start_time # <<>>
    /\ InputLines # <<>>
    /\ DatetimeValue(opt.start_time) < ExpectedSeries[1][1]

StartAfter ==
    /\ opt.start_time # <<>>
    /\ InputLines # <<>>
    /\ DatetimeValue(opt.start_time) > ExpectedSeries[Len(InputLines)][1]

\* C6 as stated: with the window start before the first or after the last
\* timestamp of the full series, decoding succeeds and the series is empty.
C6_Original ==
    (Finished /\ WellFormed /\ (StartBefore \/ StartAfter)) =>
        /\ pc # "raised"
        /\ raw[1].data = <<>>

\* the end of the window the options ask for
WindowEnd ==
    IF opt.period # "None"
    THEN DatetimeValue(opt.start_time) + TimedeltaSeconds[opt.period]
    ELSE ExpectedSeries[Len(InputLines)][1]

\* C6 as amended: with the window start after the last timestamp of the
\* full series decoding succeeds and the series is empty; with the window
\* start before the first timestamp decoding succeeds too, and the series
\* is every sample from the first one up to the window end, empty only if
\* the window ends before the first timestamp.
C6_Amended ==
    /\ (Finished /\ WellFormed /\ StartAfter) =>
           /\ pc # "raised"
           /\ raw[1].data = <<>>
    /\ (Finished /\ WellFormed /\ StartBefore) =>
           /\ pc # "raised"
           /\ raw[1].data =
                  InclusiveSlice(ExpectedSeries, ExpectedSeries[1][1], WindowEnd)
           /\ raw[1].data = <<>> <=> WindowEnd < ExpectedSeries[1][1]

C6_Witness ==
    /\ Populated
    /\ StartAfter
    /\ Len(InputLines) = 3
    /\ opt.period = "None"
    /\ raw[1].data = <<>>

C8_ReportedWindow ==
    Populated =>
        LET S == IF opt.start_time # <<>>
                 THEN DatetimeValue(opt.start_time)
                 ELSE HeaderStart
            E == IF opt.period # "None"
                 THEN S + TimedeltaSeconds[opt.period]
                 ELSE ExpectedSeries[Len(InputLines)][1]
        IN  /\ raw[1].start_time = S
            /\ stop_time = <<E>>
            /\ opt.period # "None" => raw[1].period = TimedeltaSeconds[opt.period]
            /\ opt.period = "None" => raw[1].period = E - S
            /\ raw[1].data = InclusiveSlice(ExpectedSeries, S, E)
            /\ \A i \in DOMAIN raw[1].data :
                   /\ raw[1].start_time <= raw[1].data[i][1]
                   /\ raw[1].data[i][1] <= raw[1].start_time + raw[1].period

C8_Witness ==
    /\ Populated
    /\ opt.start_time = Timestamp("08:00:15")
    /\ opt.period = "15s"
    /\ Len(InputLines) = 3
    /\ HeaderCode = <<"1">>
    /\ Len(raw[1].data) = 2
    /\ raw[1].data[1][1] = 28815

\* C9: the file handle is closed whenever the constructor has returned or
\* raised, and from the moment the header and the data lines have been read.
C9_HandleClosed ==
    /\ Finished => handle = "closed"
    /\ (pc \notin {"init", "header", "data"}) => handle = "closed"
    /\ handle = "open" => pc \in {"header", "data"}

C9_Witness ==
    /\ pc = "raised"
    /\ error = "ValueError: invalid literal for int()"
    /\ handle = "closed"

\* the fatal conditions of an input whose header could be read
BadData ==
    /\ Len(file) >= opt.header_size
    /\ \E i \in DOMAIN InputLines :
           ~IsSignedDigits(Trimmed(BeforeFirst(InputLines[i], {" "})))

BadStart ==
    /\ Len(file) >= opt.header_size
    /\ opt.header_size >= 6
    /\ ~DatetimeValid(file[2] \o <<" ">> \o file[3])

NoFrequency ==
    /\ Len(file) >= opt.header_size
    /\ opt.header_size >= 6
    /\ HeaderCode \notin DOMAIN frequency_code
    /\ opt.frequency = "None"

\* position of a step among the completed steps, 0 if not completed
StepAt(step) ==
    IF step \in Range(done) THEN IndexOf(done, step) ELSE 0

\* C10: the result container is populated at most once, and only after the
\* header read, the data-line parse, the start-timestamp parse and the
\* frequency resolution succeeded in that order; under a fatal condition
\* the constructor raises at the first failing step and never populates the
\* container; resolving the model never raises.
C10_PopulateLast ==
    /\ [](Populated =>
            /\ 0 < StepAt("header")
            /\ StepAt("header") < StepAt("data")
            /\ StepAt("data") < StepAt("start")
            /\ StepAt("start") < StepAt("frequency")
            /\ StepAt("frequency") < StepAt("populate")
            /\ StepAt("populate") = Len(done))
    /\ []((BadData \/ BadStart \/ NoFrequency) =>
            /\ ~Populated
            /\ pc \notin {"populate", "constructed", "read"})
    /\ [](pc = "raised" =>
            /\ BadData => error = "ValueError: invalid literal for int()"
            /\ (~BadData /\ BadStart) =>
                   error = "ParserError: unknown datetime string"
            /\ (~BadData /\ ~BadStart /\ NoFrequency) =>
                   error = ConfigurationError)
    /\ [][/\ Populated => raw' = raw
          /\ pc = "model" => (pc' = "frequency" /\ error' = "None")
          /\ pc = "raised" => UNCHANGED vars]_vars

C10_Witness ==
    /\ pc = "raised"
    /\ BadStart
    /\ NoFrequency
    /\ error = "ParserError: unknown datetime string"
    /\ uuid = <<"z", "9">>
    /\ ~Populated

====
